---------------------------- MODULE Spec2Model ----------------------------
(***************************************************************************)
(* A model of the colour map generators of gencolormap (src/colormap.cpp). *)
(*                                                                         *)
(* Numbers.  The program computes in IEEE single precision.  The model     *)
(* computes in decimal fixed point: the integer x stands for the real      *)
(* x / SCALE.  The C library functions the program calls (sin, cos, atan2, *)
(* hypot, cbrt, pow, fmod, round) are modelled by integer algorithms that  *)
(* approximate them to about one unit of the last fixed-point place.  The  *)
(* IEEE special values (NaN, +-infinity) that a division by zero produces  *)
(* are modelled by the single value NaN, which every operation that can    *)
(* receive it propagates.                                                  *)
(***************************************************************************)
EXTENDS Integers, Sequences, FiniteSets, TLC

SCALE == 10^4

\* The IEEE special values (a quiet NaN or an infinity), outside the range
\* of every number the model computes.
NaN == -(2^30)

IsNaN(x) == x = NaN

Abs(x) == IF x < 0 THEN -x ELSE x

Sgn(x) == IF x < 0 THEN -1 ELSE 1

Min(a, b) == IF b < a THEN b ELSE a

Max(a, b) == IF a < b THEN b ELSE a

\* a / b for integers, b > 0, rounded to the nearest integer.
RoundDiv(a, b) ==
    IF a >= 0 THEN (2 * a + b) \div (2 * b) ELSE -((2 * (-a) + b) \div (2 * b))

\* |a| * |b| / SCALE without leaving 32 bits.
MulAbs(a, b) ==
    (a \div SCALE) * (b \div SCALE) * SCALE
    + (a \div SCALE) * (b % SCALE) + (a % SCALE) * (b \div SCALE)
    + ((a % SCALE) * (b % SCALE) + SCALE \div 2) \div SCALE

\* Fixed-point product.
MulFix(a, b) == Sgn(a) * Sgn(b) * MulAbs(Abs(a), Abs(b))

\* Long division: the next `digits` decimal digits of r / b appended to q.
RECURSIVE LongDiv(_, _, _, _)
LongDiv(q, r, b, digits) ==
    IF digits = 0
    THEN IF 2 * r >= b THEN q + 1 ELSE q
    ELSE LongDiv(10 * q + (10 * r) \div b, (10 * r) % b, b, digits - 1)

\* Fixed-point quotient; a division by zero gives an IEEE special value.
DivFix(a, b) ==
    IF b = 0 THEN NaN
    ELSE Sgn(a) * Sgn(b) * LongDiv(Abs(a) \div Abs(b), Abs(a) % Abs(b), Abs(b), 4)

RECURSIVE SqrtIter(_, _)
SqrtIter(x, y) ==
    LET step(z) == IF z >= y THEN y ELSE SqrtIter(x, z)
    IN  step((y + DivFix(x, y)) \div 2)

\* std::sqrt for x >= 0 (Newton's iteration from above).
Sqrt(x) == IF x <= 0 THEN 0 ELSE SqrtIter(x, Max(x, SCALE))

\* std::hypot
Hypot(u, v) == Sqrt(MulFix(u, u) + MulFix(v, v))

RECURSIVE CbrtIter(_, _)
CbrtIter(x, y) ==
    LET step(z) == IF z >= y THEN y ELSE CbrtIter(x, z)
    IN  step((2 * y + DivFix(x, MulFix(y, y))) \div 3)

\* std::cbrt for 0 <= x.
Cbrt(x) == IF x <= 0 THEN 0 ELSE CbrtIter(x, Max(x, SCALE))

pi == 31416

twopi == 62832

halfpi == twopi \div 4

\* sin on [-pi/2, pi/2]: the Taylor polynomial to x^9, in Horner form.
SinPoly(x) ==
    LET term(x2, t, d) == SCALE - MulFix(x2, t) \div d
        poly(x2) ==
            MulFix(x, term(x2, term(x2, term(x2, term(x2, SCALE, 72), 42), 20), 6))
    IN  poly(MulFix(x, x))

\* std::sin: reduce to (-pi, pi], fold onto [-pi/2, pi/2].
Sin(x) ==
    LET fold(r) == IF r > halfpi THEN pi - r
                   ELSE IF r < -halfpi THEN -pi - r
                   ELSE r
    IN  SinPoly(fold(((x + pi) % twopi) - pi))

\* std::cos
Cos(x) == Sin(x + halfpi)

\* atan on [0, tan(pi/8)]: the Taylor polynomial to z^11.
AtanPoly(z) ==
    LET term(z2, t, d) == SCALE \div d - MulFix(z2, t)
        poly(z2) ==
            MulFix(z, term(z2, term(z2, term(z2, term(z2, term(z2, SCALE \div 11, 9),
                                                      7), 5), 3), 1))
    IN  poly(MulFix(z, z))

\* atan on [0, 1]: atan z = 2 atan(z / (1 + sqrt(1 + z^2))).
AtanUnit(z) == 2 * AtanPoly(DivFix(z, SCALE + Sqrt(SCALE + MulFix(z, z))))

\* atan2 in the first quadrant, y >= 0 and x >= 0, not both 0.
AtanQuad(y, x) ==
    LET octant(a) == IF y <= x THEN a ELSE halfpi - a
    IN  octant(AtanUnit(DivFix(Min(y, x), Max(y, x))))

\* std::atan2, result in (-pi, pi].
Atan2(y, x) ==
    LET quadrant(a) == IF x >= 0 /\ y >= 0 THEN a
                       ELSE IF x < 0 /\ y >= 0 THEN pi - a
                       ELSE IF x < 0 THEN a - pi
                       ELSE -a
    IN  IF x = 0 /\ y = 0 THEN 0 ELSE quadrant(AtanQuad(Abs(y), Abs(x)))

\* ln on [1/2, 1]: 2 atanh((m - 1) / (m + 1)).
LnPoly(m) ==
    LET term(w2, t, d) == SCALE \div d + MulFix(w2, t)
        poly(w, w2) ==
            2 * MulFix(w, term(w2, term(w2, term(w2, term(w2, SCALE \div 9, 7), 5), 3), 1))
        square(w) == poly(w, MulFix(w, w))
    IN  square(DivFix(m - SCALE, m + SCALE))

\* -ln(1/2) as LnPoly computes it.
ln2 == 6930

RECURSIVE LnIter(_, _)
LnIter(x, k) ==
    IF 2 * x <= SCALE THEN LnIter(2 * x, k + 1) ELSE LnPoly(x) - k * ln2

\* ln(x) for 0 < x <= 1.
Ln(x) == LnIter(x, 0)

\* exp on [0, ln 2): the Taylor polynomial to r^8, in Horner form.
ExpPoly(r) ==
    LET term(t, d) == SCALE + MulFix(r, t) \div d
    IN  term(term(term(term(term(term(term(term(SCALE, 8), 7), 6), 5), 4), 3), 2), 1)

\* exp(z) for z <= 0: z = r - k ln 2 with 0 <= r < ln 2.
Exp(z) ==
    LET scaled(k) == IF k > 20 THEN 0 ELSE RoundDiv(ExpPoly(z + k * ln2), 2^k)
    IN  scaled(((-z) + ln2 - 1) \div ln2)

\* std::pow(x, y) for 0 <= x <= 1 and y >= 0.
Pow(x, y) ==
    IF y = 0 THEN SCALE
    ELSE IF x <= 0 THEN 0
    ELSE Exp(MulFix(y, Ln(x)))

\* std::fmod: the remainder of the division truncated toward zero.
Fmod(x, y) == Sgn(x) * (Abs(x) % Abs(y))

\* std::round followed by the conversion to unsigned char, for x >= 0.
RoundToByte(x) == (x + SCALE \div 2) \div SCALE

\* The (truncating) conversion of a float to unsigned char, for x >= 0.
TruncToByte(x) == x \div SCALE

-----------------------------------------------------------------------------
(* XYZ and related color spaces helper functions and values *)

clamp(x, lo, hi) == IF IsNaN(x) THEN NaN ELSE Min(Max(x, lo), hi)

u_prime(x, y, z) == DivFix(4 * x, x + 15 * y + 3 * z)

v_prime(x, y, z) == DivFix(9 * y, x + 15 * y + 3 * z)

d65_x == 950470

d65_y == 1000000

d65_z == 1088830

d65_u_prime == u_prime(d65_x, d65_y, d65_z)

d65_v_prime == v_prime(d65_x, d65_y, d65_z)

(* Color space conversion: LCH <-> LUV *)

\* c / max(l, 1e-8f): the epsilon is the smallest positive number.
lch_saturation(l, c) == DivFix(c, Max(l, 1))

lch_chroma(l, s) == MulFix(s, l)

lch_to_luv(c, h) == [u |-> MulFix(c, Cos(h)), v |-> MulFix(c, Sin(h))]

luv_to_lch(u, v) ==
    LET normal(a) == IF a < 0 THEN a + twopi ELSE a
    IN  [c |-> Hypot(u, v), h |-> normal(Atan2(v, u))]

luv_saturation(l, u, v) == lch_saturation(l, Hypot(u, v))

(* Color space conversion: LUV <-> XYZ *)

\* The divisor of u and v in luv_to_xyz.
luv_to_xyz_divisor(l) == 13 * l

\* l = 0 divides by zero: u / 0 is NaN or an infinity, and x and z, which
\* multiply y = 0 by it, are NaN.
luv_to_xyz(l, u, v) ==
    IF IsNaN(l) \/ IsNaN(u) \/ IsNaN(v) THEN [x |-> NaN, y |-> NaN, z |-> NaN]
    ELSE
    LET shift(q, d) == IF IsNaN(q) THEN NaN ELSE q + d
        cube(tmp) == MulFix(d65_y, MulFix(MulFix(tmp, tmp), tmp))
        xyz(up, vp, y) ==
            IF IsNaN(up) \/ IsNaN(vp) \/ vp = 0
            THEN [x |-> NaN, y |-> y, z |-> NaN]
            ELSE [x |-> DivFix(MulFix(y, 9 * up), 4 * vp),
                  y |-> y,
                  z |-> DivFix(MulFix(y, 12 * SCALE - 3 * up - 20 * vp), 4 * vp)]
    IN  xyz(shift(DivFix(u, luv_to_xyz_divisor(l)), d65_u_prime),
            shift(DivFix(v, luv_to_xyz_divisor(l)), d65_v_prime),
            IF l <= 8 * SCALE
            THEN RoundDiv(MulFix(d65_y, l) * 27, 24389)
            ELSE cube(DivFix(l + 16 * SCALE, 116 * SCALE)))

xyz_to_luv(x, y, z) ==
    IF IsNaN(x) \/ IsNaN(y) \/ IsNaN(z) THEN [l |-> NaN, u |-> NaN, v |-> NaN]
    ELSE
    LET lightness(y_ratio) ==
            IF y_ratio <= DivFix(216, 24389)
            THEN RoundDiv(24389 * y_ratio, 27)
            ELSE 116 * Cbrt(y_ratio) - 16 * SCALE
        luv(l, up, vp) ==
            IF IsNaN(up) \/ IsNaN(vp) THEN [l |-> l, u |-> NaN, v |-> NaN]
            ELSE [l |-> l,
                  u |-> MulFix(13 * l, up - d65_u_prime),
                  v |-> MulFix(13 * l, vp - d65_v_prime)]
    IN  luv(lightness(DivFix(y, d65_y)), u_prime(x, y, z), v_prime(x, y, z))

(* Color space conversion: RGB <-> XYZ *)

M == << <<4124, 3576, 1805>>,
        <<2126, 7152, 722>>,
        <<193, 1192, 9505>> >>

rgb_to_xyz(r, g, b) ==
    IF IsNaN(r) \/ IsNaN(g) \/ IsNaN(b) THEN [x |-> NaN, y |-> NaN, z |-> NaN]
    ELSE
    [x |-> RoundDiv(M[1][1] * r + M[1][2] * g + M[1][3] * b, 100),
     y |-> RoundDiv(M[2][1] * r + M[2][2] * g + M[2][3] * b, 100),
     z |-> RoundDiv(M[3][1] * r + M[3][2] * g + M[3][3] * b, 100)]

xyz_to_rgb(x, y, z) ==
    IF IsNaN(x) \/ IsNaN(y) \/ IsNaN(z) THEN [r |-> NaN, g |-> NaN, b |-> NaN]
    ELSE
    [r |-> clamp(RoundDiv(MulFix(32406, x) - MulFix(15372, y) - MulFix(4986, z), 100),
                 0, SCALE),
     g |-> clamp(RoundDiv(MulFix(18758, y) - MulFix(9689, x) + MulFix(415, z), 100),
                 0, SCALE),
     b |-> clamp(RoundDiv(MulFix(557, x) - MulFix(2040, y) + MulFix(10570, z), 100),
                 0, SCALE)]

(* Color space conversion: RGB <-> sRGB *)

rgb_to_srgb_helper(x) ==
    IF IsNaN(x) THEN NaN
    ELSE IF x <= 31 THEN MulFix(x, 129200)
    ELSE MulFix(10550, Pow(x, 4167)) - 550

rgb_to_srgb(r, g, b) ==
    [sr |-> rgb_to_srgb_helper(r),
     sg |-> rgb_to_srgb_helper(g),
     sb |-> rgb_to_srgb_helper(b)]

srgb_to_rgb_helper(x) ==
    IF IsNaN(x) THEN NaN
    ELSE IF x <= 404 THEN DivFix(x, 129200)
    ELSE Pow(DivFix(x + 550, 10550), 24000)

srgb_to_rgb(sr, sg, sb) ==
    [r |-> srgb_to_rgb_helper(sr),
     g |-> srgb_to_rgb_helper(sg),
     b |-> srgb_to_rgb_helper(sb)]

(* Helpers for LUV colors *)

NaNColor == [l |-> NaN, u |-> NaN, v |-> NaN]

IsNaNColor(c) == IsNaN(c.l) \/ IsNaN(c.u) \/ IsNaN(c.v)

\* operator+(LUVColor, LUVColor)
LUVAdd(a, b) ==
    IF IsNaNColor(a) \/ IsNaNColor(b) THEN NaNColor
    ELSE [l |-> a.l + b.l, u |-> a.u + b.u, v |-> a.v + b.v]

\* operator*(float, LUVColor)
LUVScale(a, b) ==
    IF IsNaN(a) \/ IsNaNColor(b) THEN NaNColor
    ELSE [l |-> MulFix(a, b.l), u |-> MulFix(a, b.u), v |-> MulFix(a, b.v)]

\* sRGB -> RGB -> XYZ -> LUV, as srgb_to_lch_hue and most_saturated_in_srgb
\* chain the conversions.
srgb_to_luv(sr, sg, sb) ==
    LET to_xyz(rgb) == rgb_to_xyz(rgb.r, rgb.g, rgb.b)
        to_luv(xyz) == xyz_to_luv(xyz.x, xyz.y, xyz.z)
    IN  to_luv(to_xyz(srgb_to_rgb(sr, sg, sb)))

srgb_to_lch_hue(sr, sg, sb) ==
    LET to_lch(luv) == luv_to_lch(luv.u, luv.v)
    IN  to_lch(srgb_to_luv(sr, sg, sb)).h

\* The corners of the sRGB cube whose hues bound the six sectors: red,
\* yellow, green, cyan, blue, magenta.
Corners == << <<1, 0, 0>>, <<1, 1, 0>>, <<0, 1, 0>>,
              <<0, 1, 1>>, <<0, 0, 1>>, <<1, 0, 1>> >>

\* The value of the static h[] of most_saturated_in_srgb once initialised.
HueSamples ==
    [m \in 1..6 |-> srgb_to_lch_hue(Corners[m][1] * SCALE, Corners[m][2] * SCALE,
                                    Corners[m][3] * SCALE)]

\* A faulty dispatch: the yellow-green sector sets the wrong channels to 0
\* and 1.
dispatch_typo(hue, hh) ==
    IF hue < hh[1] THEN [i |-> 2, j |-> 1, k |-> 0]
    ELSE IF hue < hh[2] THEN [i |-> 1, j |-> 2, k |-> 0]
    ELSE IF hue < hh[3] THEN [i |-> 0, j |-> 1, k |-> 2]
    ELSE IF hue < hh[4] THEN [i |-> 2, j |-> 0, k |-> 1]
    ELSE IF hue < hh[5] THEN [i |-> 1, j |-> 0, k |-> 2]
    ELSE IF hue < hh[6] THEN [i |-> 0, j |-> 1, k |-> 2]
    ELSE [i |-> 2, j |-> 1, k |-> 0]

\* The chained comparisons of most_saturated_in_srgb against h[] = hh: the
\* channel i that is solved for, the channel j set to 0 and the channel k
\* set to 1.
dispatch(hue, hh) ==
    IF hue < hh[1] THEN [i |-> 2, j |-> 1, k |-> 0]
    ELSE IF hue < hh[2] THEN [i |-> 1, j |-> 2, k |-> 0]
    ELSE IF hue < hh[3] THEN [i |-> 0, j |-> 2, k |-> 1]
    ELSE IF hue < hh[4] THEN [i |-> 2, j |-> 0, k |-> 1]
    ELSE IF hue < hh[5] THEN [i |-> 1, j |-> 0, k |-> 2]
    ELSE IF hue < hh[6] THEN [i |-> 0, j |-> 1, k |-> 2]
    ELSE [i |-> 2, j |-> 1, k |-> 0]

\* The array srgb[] of most_saturated_in_srgb after "Compute the missing
\* component", indexed 0..2; an element never assigned is indeterminate.
most_saturated_srgb(hue, hh) ==
    LET q(T, alpha, beta, c) ==
            MulFix(T, M[1][c + 1] + 15 * M[2][c + 1] + 3 * M[3][c + 1])
            - (MulFix(4 * alpha, M[1][c + 1]) + MulFix(9 * beta, M[2][c + 1]))
        srgb(d, x) ==
            [c \in 0..2 |-> IF c = d.i THEN x
                            ELSE IF c = d.k THEN SCALE
                            ELSE IF c = d.j THEN 0
                            ELSE NaN]
        missing(d, T, alpha, beta) ==
            srgb(d, rgb_to_srgb_helper(
                        clamp(DivFix(-q(T, alpha, beta, d.k), q(T, alpha, beta, d.i)),
                              0, SCALE)))
        solve(d, alpha, beta) ==
            missing(d, MulFix(alpha, d65_u_prime) + MulFix(beta, d65_v_prime),
                    alpha, beta)
    IN  solve(dispatch(hue, hh), -Sin(hue), Cos(hue))

most_saturated_in_srgb(hue, hh) ==
    LET to_luv(srgb) == srgb_to_luv(srgb[0], srgb[1], srgb[2])
    IN  to_luv(most_saturated_srgb(hue, hh))

\* The divisor of alpha in Smax.
Smax_divisor(pendl, pmid) == pendl - pmid.l

Smax(l, h, hh) ==
    LET smax(pmid, pendl) ==
            IF IsNaNColor(pmid) \/ Smax_divisor(pendl, pmid) = 0 THEN NaN
            ELSE MulFix(DivFix(pendl - l, Smax_divisor(pendl, pmid)),
                        luv_saturation(pmid.l, pmid.u, pmid.v)
                        - luv_saturation(pendl, 0, 0))
                 + luv_saturation(pendl, 0, 0)
        pend(pmid) == smax(pmid, IF l > pmid.l THEN 100 * SCALE ELSE 0)
    IN  pend(most_saturated_in_srgb(h, hh))

\* The value of the static pb of get_bright_point once initialised.
BrightPoint ==
    LET to_luv(xyz) == xyz_to_luv(xyz.x, xyz.y, xyz.z)
    IN  to_luv(rgb_to_xyz(SCALE, SCALE, 0))

mix_hue(alpha, h0, h1) ==
    Fmod(h0 + MulFix(alpha, Fmod(pi + h1 - h0, twopi) - pi), twopi)

\* std::min(a, b) of two floats, a possibly NaN: (b < a) ? b : a.
FMin(a, b) == IF IsNaN(a) THEN NaN ELSE Min(a, b)

get_color_points(hue, saturation, warmth, pb, pb_hue, pb_saturation, hh) ==
    LET bright(p2l, p2h, cap) ==
            IF IsNaN(cap) THEN NaNColor
            ELSE [l |-> p2l] @@ lch_to_luv(lch_chroma(p2l, cap), p2h)
        points(p0, p1, p2, q0, q2) ==
            [p0 |-> p0, p1 |-> p1, p2 |-> p2, q0 |-> q0,
             q1 |-> LUVScale(SCALE \div 2, LUVAdd(q0, q2)), q2 |-> q2]
        blend(p0, p1, p2) ==
            points(p0, p1, p2,
                   LUVAdd(LUVScale(SCALE - saturation, p0), LUVScale(saturation, p1)),
                   LUVAdd(LUVScale(SCALE - saturation, p2), LUVScale(saturation, p1)))
        build(p0, p2l, p2h) ==
            blend(p0, most_saturated_in_srgb(hue, hh),
                  bright(p2l, p2h,
                         FMin(Smax(p2l, p2h, hh),
                              MulFix(MulFix(warmth, saturation), pb_saturation))))
    IN  build([l |-> 0] @@ lch_to_luv(0, hue),
              MulFix(SCALE - warmth, 100 * SCALE) + MulFix(warmth, pb.l),
              mix_hue(warmth, hue, pb_hue))

B(b0, b1, b2, t) ==
    IF IsNaN(t) THEN NaNColor
    ELSE LUVAdd(LUVAdd(LUVScale(MulFix(SCALE - t, SCALE - t), b0),
                       LUVScale(2 * MulFix(SCALE - t, t), b1)),
                LUVScale(MulFix(t, t), b2))

\* The divisor of invB.
invB_divisor(b0, b1, b2) == b0 - 2 * b1 + b2

invB(b0, b1, b2, v) ==
    IF IsNaN(b0) \/ IsNaN(b1) \/ IsNaN(b2) \/ IsNaN(v) THEN NaN
    ELSE DivFix(b0 - b1 + Sqrt(Max(MulFix(b1, b1) - MulFix(b0, b2)
                                   + MulFix(invB_divisor(b0, b1, b2), v), 0)),
                invB_divisor(b0, b1, b2))

\* The target lightness l of get_colormap_entry.
target_lightness(t, contrast, brightness) ==
    125 * SCALE
    - 125 * Pow(SCALE \div 5, MulFix(SCALE - contrast, brightness) + MulFix(t, contrast))

get_colormap_entry(t, p0, p2, q0, q1, q2, contrast, brightness) ==
    LET half(x, add) == IF IsNaN(x) THEN NaN ELSE x \div 2 + add
        param(l) ==
            IF IsNaN(q1.l) THEN NaN
            ELSE IF l <= q1.l THEN half(invB(p0.l, q0.l, q1.l, l), 0)
            ELSE half(invB(q1.l, q2.l, p2.l, l), SCALE \div 2)
        point(T) ==
            IF IsNaN(T) THEN NaNColor
            ELSE IF T <= SCALE \div 2 THEN B(p0, q0, q1, 2 * T)
            ELSE B(q1, q2, p2, 2 * (T - SCALE \div 2))
    IN  point(param(target_lightness(t, contrast, brightness)))

\* The three bytes convert_colormap_entry stores, or NaN for a byte that is
\* the conversion of a NaN to unsigned char (undefined behaviour).
convert_colormap_entry(color) ==
    LET to_rgb(xyz)  == xyz_to_rgb(xyz.x, xyz.y, xyz.z)
        to_srgb(rgb) == rgb_to_srgb(rgb.r, rgb.g, rgb.b)
        byte(x)      == IF IsNaN(x) THEN NaN ELSE RoundToByte(255 * x)
        bytes(srgb)  == <<byte(srgb.sr), byte(srgb.sg), byte(srgb.sb)>>
    IN  bytes(to_srgb(to_rgb(luv_to_xyz(color.l, color.u, color.v))))

-----------------------------------------------------------------------------
(* Public functions: one table entry of each generator.  Each operator     *)
(* gives the body of the generator's loop for index i: the LUV colour c    *)
(* handed to convert_colormap_entry, the position pos the profile is       *)
(* sampled at, and the branch taken.                                       *)

\* A faulty fraction: the integer division i / (n - 1).
fraction_truncated(i, n) == (i \div (n - 1)) * SCALE

\* i / (n - 1.0f)
fraction(i, n) == DivFix(i * SCALE, (n - 1) * SCALE)

\* Lines 381-384 and 409-413: the bright point's hue and saturation and the
\* control points of one profile.
profile(hue, saturation, warmth, pb, hh) ==
    LET with(lch) ==
            get_color_points(hue, saturation, warmth, pb, lch.h,
                             lch_saturation(pb.l, lch.c), hh)
            @@ [pbh |-> lch.h]
    IN  with(luv_to_lch(pb.u, pb.v))

\* hue1 of BrewerDiverging.
hue1(hue, divergence) ==
    IF hue + divergence >= twopi THEN hue + divergence - twopi ELSE hue + divergence

entry_of(pts, t, contrast, brightness) ==
    get_colormap_entry(t, pts.p0, pts.p2, pts.q0, pts.q1, pts.q2, contrast, brightness)

\* A faulty loop body: the table sampled in index order, t = i / (n - 1).
SequentialEntryForward(n, i, a, pts) ==
    [c |-> entry_of(pts, fraction(i, n), a.contrast, a.brightness),
     pos |-> fraction(i, n), branch |-> "first"]

\* The loop body of BrewerSequential.
SequentialEntry(n, i, a, pts) ==
    [c |-> entry_of(pts, fraction(n - 1 - i, n), a.contrast, a.brightness),
     pos |-> fraction(n - 1 - i, n), branch |-> "first"]

\* The largest n for which BrewerDiverging treats the map as discrete and
\* makes an extra neutral colour.
DiscreteMax == 9

\* A faulty middle entry: the average of the two saturations not scaled by
\* warmth.
DivergingMiddleUnscaled(n, a, pts0, pts1, hh) ==
    LET neutral(cl, cap) ==
            IF IsNaN(cap) THEN NaNColor
            ELSE [l |-> cl] @@ lch_to_luv(lch_chroma(cl, cap), pts0.pbh)
        extra(cl, sn) == neutral(cl, FMin(Smax(cl, pts0.pbh, hh), sn))
        middle(c0, c1) ==
            IF IsNaNColor(c0) \/ IsNaNColor(c1) THEN NaNColor
            ELSE IF n <= DiscreteMax
            THEN extra((c0.l + c1.l) \div 2,
                       (luv_saturation(c0.l, c0.u, c0.v)
                        + luv_saturation(c1.l, c1.u, c1.v)) \div 2)
            ELSE LUVScale(SCALE \div 2, LUVAdd(c0, c1))
    IN  middle(entry_of(pts0, SCALE, a.contrast, a.brightness),
               entry_of(pts1, SCALE, a.contrast, a.brightness))

\* The neutral colour in the middle of a diverging map.
DivergingMiddle(n, a, pts0, pts1, hh) ==
    LET neutral(cl, cap) ==
            IF IsNaN(cap) THEN NaNColor
            ELSE [l |-> cl] @@ lch_to_luv(lch_chroma(cl, cap), pts0.pbh)
        extra(cl, sn) == neutral(cl, FMin(Smax(cl, pts0.pbh, hh), sn))
        middle(c0, c1) ==
            IF IsNaNColor(c0) \/ IsNaNColor(c1) THEN NaNColor
            ELSE IF n <= DiscreteMax
            THEN extra((c0.l + c1.l) \div 2,
                       MulFix((luv_saturation(c0.l, c0.u, c0.v)
                               + luv_saturation(c1.l, c1.u, c1.v)) \div 2, a.warmth))
            ELSE LUVScale(SCALE \div 2, LUVAdd(c0, c1))
    IN  middle(entry_of(pts0, SCALE, a.contrast, a.brightness),
               entry_of(pts1, SCALE, a.contrast, a.brightness))

\* A faulty loop body: the second half stretched instead of folded,
\* tt = 2 t - 1.
DivergingEntryUnfolded(n, i, a, pts0, pts1, hh) ==
    LET side(pts, pos, branch) ==
            [c |-> entry_of(pts, pos, a.contrast, a.brightness), pos |-> pos,
             branch |-> branch]
    IN  IF n % 2 = 1 /\ i = n \div 2
        THEN [c |-> DivergingMiddle(n, a, pts0, pts1, hh), pos |-> SCALE,
              branch |-> IF n <= DiscreteMax THEN "neutral" ELSE "average"]
        ELSE side(IF i < n \div 2 THEN pts0 ELSE pts1,
                  IF i < n \div 2 THEN 2 * fraction(i, n)
                  ELSE 2 * fraction(i, n) - SCALE,
                  IF i < n \div 2 THEN "first" ELSE "second")

\* The loop body of BrewerDiverging.
DivergingEntry(n, i, a, pts0, pts1, hh) ==
    LET side(pts, pos, branch) ==
            [c |-> entry_of(pts, pos, a.contrast, a.brightness), pos |-> pos,
             branch |-> branch]
    IN  IF n % 2 = 1 /\ i = n \div 2
        THEN [c |-> DivergingMiddle(n, a, pts0, pts1, hh), pos |-> SCALE,
              branch |-> IF n <= DiscreteMax THEN "neutral" ELSE "average"]
        ELSE side(IF i < n \div 2 THEN pts0 ELSE pts1,
                  IF i < n \div 2 THEN 2 * fraction(i, n)
                  ELSE 2 * (SCALE - fraction(i, n)),
                  IF i < n \div 2 THEN "first" ELSE "second")

\* A faulty hue difference: the way round the circle is not taken.
HueDiffNoWrap(h0, h1) == Abs(h1 - h0)

HueDiff(h0, h1) ==
    LET shorter(t) == IF t < pi THEN t ELSE twopi - t
    IN  shorter(Abs(h1 - h0))

\* The value of the static yh of BrewerQualitative once initialised.
YellowHue ==
    LET to_lch(luv) == luv_to_lch(luv.u, luv.v)
    IN  to_lch(BrightPoint).h

\* The value of the static rs of BrewerQualitative once initialised.
RedSaturation ==
    LET sat(luv) == luv_saturation(luv.l, luv.u, luv.v)
        to_luv(xyz) == xyz_to_luv(xyz.x, xyz.y, xyz.z)
    IN  sat(to_luv(rgb_to_xyz(SCALE, 0, 0)))

\* ch, alpha and cl of the loop body of BrewerQualitative.
QualitativeHue(n, i, a) ==
    Fmod(MulFix(twopi, DivFix(a.hue, twopi)
                       + MulFix(fraction(i, n), DivFix(a.divergence, twopi))),
         twopi)

QualitativeAlpha(ch, yellowHue) == DivFix(HueDiff(ch, yellowHue), pi)

QualitativeLightness(alpha, l0, l1) == MulFix(SCALE - alpha, l0) + MulFix(alpha, l1)

\* The loop body of BrewerQualitative; l0 was derived before the loop, the
\* statics yh and rs are read in it.
QualitativeEntry(n, i, a, l0, yellowHue, redSaturation, hh) ==
    LET color(ch, cl, cs) ==
            IF IsNaN(cs) THEN NaNColor
            ELSE [l |-> cl] @@ lch_to_luv(lch_chroma(cl, cs), ch)
        capped(ch, cl) ==
            color(ch, cl, FMin(Smax(cl, ch, hh), MulFix(a.saturation, redSaturation)))
        lit(ch) ==
            capped(ch, QualitativeLightness(QualitativeAlpha(ch, yellowHue), l0,
                                            MulFix(SCALE - a.contrast, l0)))
    IN  [c |-> lit(QualitativeHue(n, i, a)), pos |-> fraction(i, n),
         branch |-> "first", ch |-> QualitativeHue(n, i, a),
         alpha |-> QualitativeAlpha(QualitativeHue(n, i, a), yellowHue)]

(* Public functions: CubeHelix *)

\* The position the amplitude and the gray ramp of CubeHelix use.
CubeHelixFract(n, i, a) == Pow(fraction(i, n), a.gamma)

CubeHelixAngle(n, i, a) ==
    MulFix(twopi, DivFix(a.hue, 3 * SCALE) + SCALE + MulFix(a.rot, fraction(i, n)))

\* A faulty amplitude: the factor (1 - fract) left out.
CubeHelixAmpNoTaper(saturation, fract) == MulFix(saturation, fract) \div 2

CubeHelixAmp(saturation, fract) ==
    MulFix(MulFix(saturation, fract), SCALE - fract) \div 2

\* A faulty loop body: the amplitude taken from the position i / (n - 1)
\* instead of from fract after fract = pow(fract, gamma).
CubeHelixLocalsLinearAmp(n, i, a) ==
    LET at(fract, angle) ==
            [fract |-> fract, angle |-> angle,
             amp |-> CubeHelixAmp(a.saturation, fraction(i, n)),
             s |-> Sin(angle), c |-> Cos(angle)]
    IN  at(CubeHelixFract(n, i, a), CubeHelixAngle(n, i, a))

\* The locals of the loop body of CubeHelix when r, g and b are computed:
\* fract (after fract = pow(fract, gamma)), angle, amp, s and c.
CubeHelixLocals(n, i, a) ==
    LET at(fract, angle) ==
            [fract |-> fract, angle |-> angle,
             amp |-> CubeHelixAmp(a.saturation, fract),
             s |-> Sin(angle), c |-> Cos(angle)]
    IN  at(CubeHelixFract(n, i, a), CubeHelixAngle(n, i, a))

\* r, g and b of the loop body of CubeHelix before clamping.
CubeHelixRaw(n, i, a) ==
    LET rgb(v) ==
            [r |-> v.fract + MulFix(v.amp, MulFix(-1486, v.c) + MulFix(17828, v.s)),
             g |-> v.fract + MulFix(v.amp, MulFix(-2923, v.c) - MulFix(9065, v.s)),
             b |-> v.fract + MulFix(v.amp, MulFix(19729, v.c))]
    IN  rgb(CubeHelixLocals(n, i, a))

\* A faulty count: one increment for each channel out of range.
CubeHelixClippedPerChannel(raw) ==
    (IF raw.r < 0 \/ raw.r > SCALE THEN 1 ELSE 0)
    + (IF raw.g < 0 \/ raw.g > SCALE THEN 1 ELSE 0)
    + (IF raw.b < 0 \/ raw.b > SCALE THEN 1 ELSE 0)

\* The number of times the loop body sets clipped and then increments
\* clippings: 0 or 1.
CubeHelixClipped(raw) ==
    IF raw.r < 0 \/ raw.r > SCALE \/ raw.g < 0 \/ raw.g > SCALE
       \/ raw.b < 0 \/ raw.b > SCALE
    THEN 1 ELSE 0

\* The three bytes the loop body of CubeHelix stores.
CubeHelixBytes(raw) ==
    <<TruncToByte(255 * clamp(raw.r, 0, SCALE)),
      TruncToByte(255 * clamp(raw.g, 0, SCALE)),
      TruncToByte(255 * clamp(raw.b, 0, SCALE))>>

-----------------------------------------------------------------------------
(* The program as a state machine: callers on two threads call the four    *)
(* generators, each into its own buffer.  The statics of get_bright_point, *)
(* BrewerQualitative and most_saturated_in_srgb are shared.  A third       *)
(* specification queries the gamut solver most_saturated_in_srgb alone.    *)

Threads == {1, 2}

\* The largest table size n a caller asks for.
MaxN == 4

Sizes == 2..MaxN

\* Odd sizes on both sides of the limit of the discrete maps.
MidSizes == {DiscreteMax, DiscreteMax + 2}

\* The caller's buffer holds 3 * n bytes; the model gives it room beyond.
BufLen == 3 * Max(MaxN, DiscreteMax + 2) + 3

\* A buffer no generator has written to: no cell holds a byte.
EmptyBuffer == [o \in 0..BufLen - 1 |-> -1]

NoWrites == [o \in 0..BufLen - 1 |-> 0]

\* The value -1.0f the statics pb, yl, yh and rs are initialised with.
Sentinel == -SCALE

\* What the conversion of a NaN to unsigned char stores: undefined
\* behaviour; builds store the low byte of INT_MIN or of INT_MAX.
UBOutcomes == {0, 255}

Args(fn, n, hue, divergence, contrast, saturation, brightness, warmth, rot, gamma) ==
    [fn |-> fn, n |-> n, hue |-> hue, divergence |-> divergence,
     contrast |-> contrast, saturation |-> saturation, brightness |-> brightness,
     warmth |-> warmth, rot |-> rot, gamma |-> gamma]

NoArgs == Args("none", 0, 0, 0, 0, 0, 0, 0, 0, 0)

\* The calls two concurrent callers make: each generator, two entries.
Calls ==
    {Args("BrewerSequential", 2, 0, 0, 8800, 6000, 7500, 1500, 0, 0),
     Args("BrewerDiverging", 2, 50000, 30000, 8800, 6000, 7500, 1500, 0, 0),
     Args("BrewerQualitative", 2, 0, 40000, 5000, 5000, 8000, 0, 0, 0),
     Args("CubeHelix", 2, 0, 0, 0, SCALE, 0, 0, -15000, SCALE)}

\* The calls a single caller makes, one after the other.
SoloCalls ==
    {Args("BrewerSequential", n, hue, 0, c, s, b, w, 0, 0) :
        n \in Sizes, hue \in {0, 45000}, c \in {1000, 8800, SCALE},
        s \in {0, 6000, SCALE},
        b \in {0, 7500, SCALE}, w \in {0, 1500, SCALE}}
    \cup {Args("BrewerDiverging", n, hue, d, c, 6000, b, 1500, 0, 0) :
        n \in Sizes, hue \in {10000, 50000}, d \in {30000}, c \in {8800, SCALE},
        b \in {0, 7500}}
    \cup {Args("BrewerDiverging", n, 10000, 30000, 8800, 6000, 7500, w, 0, 0) :
        n \in MidSizes, w \in {1500, SCALE}}
    \cup {Args("BrewerQualitative", n, hue, d, c, 5000, b, 0, 0, 0) :
        n \in Sizes, hue \in {0, 30000}, d \in {40000, 62000}, c \in {5000, SCALE},
        b \in {0, 8000}}
    \cup {Args("BrewerQualitative", n, YellowHue, 40000, 5000, 5000, 8000, 0, 0, 0) :
        n \in Sizes}
    \cup {Args("CubeHelix", n, hue, 0, 0, s, 0, 0, rot, g) :
        n \in Sizes, hue \in {0, 20000}, s \in {SCALE, 4 * SCALE},
        rot \in {-15000, 15000}, g \in {5000, SCALE}}

VARIABLES
    pb,         \* static LUVColor pb of get_bright_point
    yl, yh,     \* static float yl, yh of BrewerQualitative
    rs,         \* static float rs of BrewerQualitative
    h,          \* static float h[] of most_saturated_in_srgb; <<>> before its
                \* initialisation
    pc,         \* where each thread is
    call,       \* the arguments of each thread's call
    lpb,        \* the local pb of BrewerSequential and BrewerDiverging
    pts,        \* the local control points: one profile, or two
    l0,         \* the local l0 of BrewerQualitative
    i,          \* the loop index
    clippings,  \* the local clippings of CubeHelix
    colormap,   \* each thread's buffer
    writes,     \* how often each offset of the buffer was stored to
    undef,      \* the offsets whose byte is the conversion of a NaN
    entries,    \* what each iteration of the loop computed
    probe       \* the last direct queries of most_saturated_in_srgb

vars == <<pb, yl, yh, rs, h, pc, call, lpb, pts, l0, i, clippings, colormap,
          writes, undef, entries, probe>>

statics == <<pb, yl, yh, rs, h>>

locals == <<call, lpb, pts, l0, i, clippings, colormap, writes, undef, entries>>

SentinelColor == [l |-> Sentinel, u |-> Sentinel, v |-> Sentinel]

Init ==
    /\ pb = SentinelColor
    /\ yl = Sentinel
    /\ yh = Sentinel
    /\ rs = Sentinel
    /\ h = <<>>
    /\ pc = [t \in Threads |-> "idle"]
    /\ call = [t \in Threads |-> NoArgs]
    /\ lpb = [t \in Threads |-> SentinelColor]
    /\ pts = [t \in Threads |-> <<>>]
    /\ l0 = [t \in Threads |-> 0]
    /\ i = [t \in Threads |-> 0]
    /\ clippings = [t \in Threads |-> 0]
    /\ colormap = [t \in Threads |-> EmptyBuffer]
    /\ writes = [t \in Threads |-> NoWrites]
    /\ undef = [t \in Threads |-> {}]
    /\ entries = [t \in Threads |-> <<>>]
    /\ probe = <<>>

\* The first statement of each generator.
EntryPoint(fn) ==
    CASE fn = "BrewerSequential"  -> "gbp_test"
      [] fn = "BrewerDiverging"   -> "gbp_test"
      [] fn = "BrewerQualitative" -> "yl_test"
      [] fn = "CubeHelix"         -> "loop"

\* A caller calls a generator with a fresh buffer.
Call(t, args) ==
    /\ pc[t] = "idle"
    /\ \E a \in args :
        /\ call' = [call EXCEPT ![t] = a]
        /\ pc' = [pc EXCEPT ![t] = EntryPoint(a.fn)]
    /\ UNCHANGED <<probe, statics, lpb, pts, l0, i, clippings, colormap, writes, undef,
                   entries>>

\* A faulty sentinel test that no value passes: x < -1.0f.
IsSentinelStrict(x) == x < Sentinel

\* A faulty sentinel test that every value of a static passes: x != 0.0f.
IsSentinelNonZero(x) == x # 0

\* The test of a static against its sentinel: x < 0.0f.
IsSentinel(x) == x < 0

\* get_bright_point: if (pb.l < 0.0f)
GbpTest(t) ==
    /\ pc[t] = "gbp_test"
    /\ pc' = [pc EXCEPT ![t] = IF IsSentinel(pb.l) THEN "gbp_l" ELSE "gbp_ret"]
    /\ UNCHANGED <<probe, statics, locals>>

\* get_bright_point: pb.l = l;
GbpWriteL(t) ==
    /\ pc[t] = "gbp_l"
    /\ pb' = [pb EXCEPT !.l = BrightPoint.l]
    /\ pc' = [pc EXCEPT ![t] = "gbp_u"]
    /\ UNCHANGED <<probe, yl, yh, rs, h, locals>>

\* get_bright_point: pb.u = u;
GbpWriteU(t) ==
    /\ pc[t] = "gbp_u"
    /\ pb' = [pb EXCEPT !.u = BrightPoint.u]
    /\ pc' = [pc EXCEPT ![t] = "gbp_v"]
    /\ UNCHANGED <<probe, yl, yh, rs, h, locals>>

\* get_bright_point: pb.v = v;
GbpWriteV(t) ==
    /\ pc[t] = "gbp_v"
    /\ pb' = [pb EXCEPT !.v = BrightPoint.v]
    /\ pc' = [pc EXCEPT ![t] = "gbp_ret"]
    /\ UNCHANGED <<probe, yl, yh, rs, h, locals>>

\* get_bright_point: return pb; and the caller's pb = get_bright_point();
GbpReturn(t) ==
    /\ pc[t] = "gbp_ret"
    /\ lpb' = [lpb EXCEPT ![t] = pb]
    /\ pc' = [pc EXCEPT ![t] = "points"]
    /\ UNCHANGED <<probe, statics, call, pts, l0, i, clippings, colormap, writes, undef,
                   entries>>

\* The static h[] of most_saturated_in_srgb after a call: the first call
\* initialises it (under the lock of a C++11 local static).
InitH(hh) == IF hh = <<>> THEN HueSamples ELSE hh

\* BrewerSequential and BrewerDiverging: the control points of the (first)
\* profile.
Points(t) ==
    /\ pc[t] = "points"
    /\ h' = InitH(h)
    /\ pts' = [pts EXCEPT ![t] =
                <<profile(call[t].hue, call[t].saturation, call[t].warmth, lpb[t], h')>>]
    /\ pc' = [pc EXCEPT ![t] =
                IF call[t].fn = "BrewerSequential" THEN "loop" ELSE "points1"]
    /\ UNCHANGED <<probe, pb, yl, yh, rs, call, lpb, l0, i, clippings, colormap, writes,
                   undef, entries>>

\* BrewerDiverging: the control points of the second profile.
Points1(t) ==
    /\ pc[t] = "points1"
    /\ pts' = [pts EXCEPT ![t] =
                Append(@, profile(hue1(call[t].hue, call[t].divergence),
                                  call[t].saturation, call[t].warmth, lpb[t], h))]
    /\ pc' = [pc EXCEPT ![t] = "loop"]
    /\ UNCHANGED <<probe, statics, call, lpb, l0, i, clippings, colormap, writes, undef,
                   entries>>

\* BrewerQualitative: if (yl < 0.0f)
YlTest(t) ==
    /\ pc[t] = "yl_test"
    /\ pc' = [pc EXCEPT ![t] = IF IsSentinel(yl) THEN "yl_write" ELSE "rs_test"]
    /\ UNCHANGED <<probe, statics, locals>>

\* BrewerQualitative: xyz_to_luv(yx, yy, yz, &yl, &yu, &yv) stores yl.
YlWrite(t) ==
    /\ pc[t] = "yl_write"
    /\ yl' = BrightPoint.l
    /\ pc' = [pc EXCEPT ![t] = "yh_write"]
    /\ UNCHANGED <<probe, pb, yh, rs, h, locals>>

\* BrewerQualitative: luv_to_lch(yu, yv, &yc, &yh) stores yh.
YhWrite(t) ==
    /\ pc[t] = "yh_write"
    /\ yh' = YellowHue
    /\ pc' = [pc EXCEPT ![t] = "rs_test"]
    /\ UNCHANGED <<probe, pb, yl, rs, h, locals>>

\* BrewerQualitative: if (rs < 0.0f)
RsTest(t) ==
    /\ pc[t] = "rs_test"
    /\ pc' = [pc EXCEPT ![t] = IF IsSentinel(rs) THEN "rs_write" ELSE "derive"]
    /\ UNCHANGED <<probe, statics, locals>>

\* BrewerQualitative: rs = luv_saturation(rl, ru, rv);
RsWrite(t) ==
    /\ pc[t] = "rs_write"
    /\ rs' = RedSaturation
    /\ pc' = [pc EXCEPT ![t] = "derive"]
    /\ UNCHANGED <<probe, pb, yl, yh, h, locals>>

\* BrewerQualitative: "Derive parameters of the method" reads yl.
Derive(t) ==
    /\ pc[t] = "derive"
    /\ l0' = [l0 EXCEPT ![t] = MulFix(call[t].brightness, yl)]
    /\ pc' = [pc EXCEPT ![t] = "loop"]
    /\ UNCHANGED <<probe, statics, call, lpb, pts, i, clippings, colormap, writes, undef,
                   entries>>

\* What iteration i of the loop of thread t's generator computes; hh is the
\* static h[] at its calls of most_saturated_in_srgb.
Entry(t, hh) ==
    CASE call[t].fn = "BrewerSequential" ->
            SequentialEntry(call[t].n, i[t], call[t], pts[t][1])
      [] call[t].fn = "BrewerDiverging" ->
            DivergingEntry(call[t].n, i[t], call[t], pts[t][1], pts[t][2], hh)
      [] call[t].fn = "BrewerQualitative" ->
            QualitativeEntry(call[t].n, i[t], call[t], l0[t], yh, rs, hh)
      [] call[t].fn = "CubeHelix" ->
            [raw |-> CubeHelixRaw(call[t].n, i[t], call[t]),
             loc |-> CubeHelixLocals(call[t].n, i[t], call[t]),
             pos |-> fraction(i[t], call[t].n), branch |-> "first"]

\* The three values stored for an entry, a NaN marking the conversion of a
\* NaN.
EntryBytes(fn, e) ==
    IF fn = "CubeHelix" THEN CubeHelixBytes(e.raw) ELSE convert_colormap_entry(e.c)

\* colormap[off + 0], [off + 1], [off + 2] = bytes, with ub stored for the
\* conversion of a NaN.
Store(buf, off, bytes, ub) ==
    [o \in DOMAIN buf |->
        IF o \in off..off + 2
        THEN (IF IsNaN(bytes[o - off + 1]) THEN ub ELSE bytes[o - off + 1])
        ELSE buf[o]]

\* The offset the loop body stores entry i at.
EntryOffset(idx) == 3 * idx

\* One iteration of the generator's loop; the last one returns.
Loop(t) ==
    /\ pc[t] = "loop"
    /\ i[t] < call[t].n
    /\ h' = IF call[t].fn = "BrewerQualitative" THEN InitH(h) ELSE h
    /\ LET nans(off, bytes) == {o \in off..off + 2 : IsNaN(bytes[o - off + 1])}
           store(off, bytes) ==
               /\ \E ub \in (IF nans(off, bytes) = {} THEN {0} ELSE UBOutcomes) :
                     colormap' = [colormap EXCEPT ![t] = Store(@, off, bytes, ub)]
               /\ undef' = [undef EXCEPT ![t] = @ \cup nans(off, bytes)]
           body(e) ==
               /\ store(EntryOffset(i[t]), EntryBytes(call[t].fn, e))
               /\ entries' = [entries EXCEPT ![t] = Append(@, e)]
               /\ clippings' = [clippings EXCEPT ![t] =
                                   IF call[t].fn = "CubeHelix"
                                   THEN @ + CubeHelixClipped(e.raw) ELSE @]
       IN  /\ body(Entry(t, h'))
           /\ writes' = [writes EXCEPT ![t] =
                            [o \in DOMAIN @ |->
                                IF o \in EntryOffset(i[t])..EntryOffset(i[t]) + 2
                                THEN @[o] + 1 ELSE @[o]]]
    /\ i' = [i EXCEPT ![t] = @ + 1]
    /\ pc' = [pc EXCEPT ![t] = IF i[t] + 1 < call[t].n THEN "loop" ELSE "done"]
    /\ UNCHANGED <<probe, pb, yl, yh, rs, call, lpb, pts, l0>>

\* The generator has returned: the caller takes the table (and CubeHelix's
\* clippings); the generator's locals are gone, and the next call gets a
\* fresh buffer.
Return(t) ==
    /\ pc[t] = "done"
    /\ pc' = [pc EXCEPT ![t] = "idle"]
    /\ call' = [call EXCEPT ![t] = NoArgs]
    /\ lpb' = [lpb EXCEPT ![t] = SentinelColor]
    /\ pts' = [pts EXCEPT ![t] = <<>>]
    /\ l0' = [l0 EXCEPT ![t] = 0]
    /\ i' = [i EXCEPT ![t] = 0]
    /\ clippings' = [clippings EXCEPT ![t] = 0]
    /\ colormap' = [colormap EXCEPT ![t] = EmptyBuffer]
    /\ writes' = [writes EXCEPT ![t] = NoWrites]
    /\ undef' = [undef EXCEPT ![t] = {}]
    /\ entries' = [entries EXCEPT ![t] = <<>>]
    /\ UNCHANGED <<probe, statics>>

\* A step of a generator that runs on thread t.
Step(t) ==
    \/ GbpTest(t)
    \/ GbpWriteL(t)
    \/ GbpWriteU(t)
    \/ GbpWriteV(t)
    \/ GbpReturn(t)
    \/ Points(t)
    \/ Points1(t)
    \/ YlTest(t)
    \/ YlWrite(t)
    \/ YhWrite(t)
    \/ RsTest(t)
    \/ RsWrite(t)
    \/ Derive(t)
    \/ Loop(t)
    \/ Return(t)

\* Two threads call the generators concurrently.
Next == \E t \in Threads : Call(t, Calls) \/ Step(t)

Spec == Init /\ [][Next]_vars

\* One thread calls the generators, one call after the other.
NextSolo == Call(1, SoloCalls) \/ Step(1)

SpecSolo == Init /\ [][NextSolo]_vars

-----------------------------------------------------------------------------
(* The gamut solver alone: most_saturated_in_srgb applied to hues drawn    *)
(* from a grid over [0, 2 pi) that includes the six sector boundaries, and *)
(* to a hue one turn further.                                              *)

\* The number of grid points on the hue circle.
GamutSteps == 48

GamutHues ==
    {(k * twopi) \div GamutSteps : k \in 0..GamutSteps - 1}
    \cup {HueSamples[m] : m \in 1..6}
    \cup {HueSamples[m] - 1 : m \in 1..6}
    \cup {twopi - 1}

\* What a call most_saturated_in_srgb(hue) computes: its array srgb[] and
\* the colour it returns.
Answer(hue, hh) ==
    [hue |-> hue, srgb |-> most_saturated_srgb(hue, hh),
     color |-> most_saturated_in_srgb(hue, hh)]

\* most_saturated_in_srgb(x) for a hue x of the grid.
QueryHue ==
    /\ \E x \in GamutHues :
        /\ h' = InitH(h)
        /\ probe' = <<Answer(x, h')>>
    /\ UNCHANGED <<pb, yl, yh, rs, pc, locals>>

\* most_saturated_in_srgb(x + twopi) after most_saturated_in_srgb(x).
QueryWrapped ==
    /\ Len(probe) = 1
    /\ probe' = Append(probe, Answer(probe[1].hue + twopi, h))
    /\ UNCHANGED <<statics, pc, locals>>

NextGamut == QueryHue \/ QueryWrapped

SpecGamut == Init /\ [][NextGamut]_vars

-----------------------------------------------------------------------------
(* The conversion XYZ -> LUV alone: u_prime, v_prime and xyz_to_luv applied *)
(* to the points of a grid over the XYZ cube that includes (0, 0, 0) and    *)
(* points next to it.                                                       *)

\* The number of grid intervals on each axis of the XYZ cube.
XyzSteps == 4

XyzGrid == {(k * 100 * SCALE) \div XyzSteps : k \in 0..XyzSteps} \cup {1}

\* What u_prime, v_prime and xyz_to_luv compute for (x, y, z).
Converted(x, y, z) ==
    [xyz |-> <<x, y, z>>, up |-> u_prime(x, y, z), vp |-> v_prime(x, y, z),
     luv |-> xyz_to_luv(x, y, z)]

\* xyz_to_luv(x, y, z) for a point of the grid.
ConvertXyz ==
    /\ \E x \in XyzGrid, y \in XyzGrid, z \in XyzGrid :
         probe' = <<Converted(x, y, z)>>
    /\ UNCHANGED <<statics, pc, locals>>

SpecXyz == Init /\ [][ConvertXyz]_vars

-----------------------------------------------------------------------------
(* Properties.                                                             *)

Done(t) == pc[t] = "done"

Brewer == {"BrewerSequential", "BrewerDiverging", "BrewerQualitative"}

\* C1: each generator stores exactly the 3n bytes at offsets 0..3n-1 of the
\* caller's buffer, each offset once, entry i at offsets 3i..3i+2 in R, G, B
\* order, nothing outside that range, and every stored byte is a defined
\* value in 0..255.
C1_FrameEffect ==
    \A t \in Threads :
        Done(t) =>
            \A o \in 0..BufLen - 1 :
                IF o < 3 * call[t].n
                THEN /\ writes[t][o] = 1
                     /\ o \notin undef[t]
                     /\ colormap[t][o] \in 0..255
                     /\ colormap[t][o]
                          = EntryBytes(call[t].fn, entries[t][(o \div 3) + 1])[(o % 3) + 1]
                ELSE /\ writes[t][o] = 0
                     /\ colormap[t][o] = EmptyBuffer[o]

\* The entries of a finished CubeHelix call with a channel outside [0, 1]
\* before clamping.
OutOfRange(t) ==
    {k \in 1..Len(entries[t]) :
        \E x \in {entries[t][k].raw.r, entries[t][k].raw.g, entries[t][k].raw.b} :
            x < 0 \/ x > SCALE}

\* C2: the clip count CubeHelix returns is the number of entries of that call
\* with a channel outside [0, 1] before clamping, one per entry and counted
\* from 0 in every call; it lies in 0..n.
C2_ClipCount ==
    \A t \in Threads :
        (Done(t) /\ call[t].fn = "CubeHelix") =>
            /\ clippings[t] = Cardinality(OutOfRange(t))
            /\ clippings[t] \in 0..call[t].n

\* A CubeHelix call has returned a clip count between 1 and n - 1, with an
\* entry that is out of range in more than one channel.
C2_Witness ==
    \E t \in Threads :
        /\ Done(t)
        /\ call[t].fn = "CubeHelix"
        /\ clippings[t] >= 1
        /\ clippings[t] < call[t].n
        /\ \E k \in OutOfRange(t) : CubeHelixClippedPerChannel(entries[t][k].raw) > 1

\* Some thread is at one of the statements pcs.
Initialising(pcs) == \E u \in Threads : pc[u] \in pcs

\* pb.l is written, pb.u or pb.v is not.
TornPb == pb.l # Sentinel /\ (pb.u = Sentinel \/ pb.v = Sentinel)

\* Thread t has got its bright point from get_bright_point.
HoldsBrightPoint(t) ==
    /\ call[t].fn \in {"BrewerSequential", "BrewerDiverging"}
    /\ pc[t] \in {"points", "points1", "loop", "done"}

AllInitialised ==
    /\ pb = BrightPoint
    /\ yl = BrightPoint.l
    /\ yh = YellowHue
    /\ rs = RedSaturation
    /\ h = HueSamples

\* C4: a memoized constant, once written, is never changed, whatever calls
\* follow or interleave: each written value fails its own sentinel test, so
\* no caller that finds it written enters the initialisation again.
C4_NeverRewritten ==
    [][/\ (pb.l # Sentinel => pb'.l = pb.l /\ ~IsSentinel(pb.l))
       /\ (pb.u # Sentinel => pb'.u = pb.u)
       /\ (pb.v # Sentinel => pb'.v = pb.v)
       /\ (yl # Sentinel => yl' = yl /\ ~IsSentinel(yl))
       /\ (yh # Sentinel => yh' = yh)
       /\ (rs # Sentinel => rs' = rs /\ ~IsSentinel(rs))
       /\ (h # <<>> => h' = h)
       /\ \A t \in Threads :
            /\ (pb.l # Sentinel /\ pc[t] = "gbp_test") => pc'[t] # "gbp_l"
            /\ (yl # Sentinel /\ pc[t] = "yl_test") => pc'[t] # "yl_write"
            /\ (rs # Sentinel /\ pc[t] = "rs_test") => pc'[t] # "rs_write"]_vars

\* All statics are initialised, one caller has just passed the test of pb
\* and another that of rs.
C4_Witness ==
    /\ AllInitialised
    /\ \E t \in Threads : pc[t] = "gbp_ret"
    /\ \E t \in Threads : pc[t] = "derive"

\* The positions of the two entries of a table of size 2.
Endpoints(fn) ==
    CASE fn = "BrewerSequential"  -> <<SCALE, 0>>
      [] fn = "BrewerDiverging"   -> <<0, 0>>
      [] fn = "BrewerQualitative" -> <<0, SCALE>>
      [] fn = "CubeHelix"         -> <<0, SCALE>>

\* C5: for n = 2 every generator divides by no zero and returns the two
\* endpoint colours: the entries are sampled at the extreme positions (1 then
\* 0 for Sequential, 0 then 1 for Qualitative and CubeHelix, the outer end 0
\* of the first and of the second profile for Diverging), none is a midpoint.
C5_TwoEndpoints ==
    \A t \in Threads :
        (Done(t) /\ call[t].n = 2) =>
            /\ <<entries[t][1].pos, entries[t][2].pos>> = Endpoints(call[t].fn)
            /\ call[t].fn = "BrewerDiverging" =>
                 <<entries[t][1].branch, entries[t][2].branch>> = <<"first", "second">>
            /\ \A k \in 1..2 : entries[t][k].branch \notin {"neutral", "average"}
            /\ undef[t] = {}
            /\ call[t].fn \in Brewer =>
                 \A k \in 1..2 : luv_to_xyz_divisor(entries[t][k].c.l) # 0

\* The control points of a profile.
PointNames == {"p0", "p1", "p2", "q0", "q1", "q2"}

\* C6: Sequential, Diverging and Qualitative divide by no zero and produce no
\* NaN: the divisor of invB is not 0 in either half of a profile, no control
\* point and no entry is NaN (as a zero divisor in Smax would make them), and
\* luv_to_xyz is applied to no colour of lightness 0.
C6_Total ==
    \A t \in Threads :
        (Done(t) /\ call[t].fn \in Brewer) =>
            /\ \A k \in 1..Len(pts[t]) :
                /\ \A nm \in PointNames : ~IsNaNColor(pts[t][k][nm])
                /\ invB_divisor(pts[t][k].p0.l, pts[t][k].q0.l, pts[t][k].q1.l) # 0
                /\ invB_divisor(pts[t][k].q1.l, pts[t][k].q2.l, pts[t][k].p2.l) # 0
            /\ \A k \in 1..Len(entries[t]) :
                /\ ~IsNaNColor(entries[t][k].c)
                /\ luv_to_xyz_divisor(entries[t][k].c.l) # 0
            /\ undef[t] = {}

\* C7: most_saturated_in_srgb(h) and most_saturated_in_srgb(h + 2 pi) solve
\* on the same edge of the cube and return equal colours.
C7_HueWrap ==
    Len(probe) = 2 =>
        /\ dispatch(probe[1].hue, h) = dispatch(probe[2].hue, h)
        /\ probe[1].srgb = probe[2].srgb
        /\ probe[1].color = probe[2].color

\* The sector of the hue circle a hue in [0, 2 pi) lies in: m for the hues
\* from corner m up to corner m + 1, 6 for those from magenta round to red.
Sector(hue) ==
    IF hue < HueSamples[1] \/ hue >= HueSamples[6] THEN 6
    ELSE CHOOSE m \in 1..5 : HueSamples[m] <= hue /\ hue < HueSamples[m + 1]

\* The corner after corner m on the hue circle.
NextCorner(m) == Corners[(m % 6) + 1]

\* C8: for a hue in [0, 2 pi) the sRGB triple of most_saturated_in_srgb lies
\* on the edge of the cube between the two corners that bound the hue's
\* sector: the channel the corners share at 0 is 0, the channel they share
\* at 1 is 1, the third is in [0, 1]; the dispatch is a permutation of the
\* channels, and the colour returned is a number.
C8_GamutBoundary ==
    \A q \in 1..Len(probe) :
        (probe[q].hue >= 0 /\ probe[q].hue < twopi) =>
            /\ \A c \in 0..2 :
                IF Corners[Sector(probe[q].hue)][c + 1] = NextCorner(Sector(probe[q].hue))[c + 1]
                THEN probe[q].srgb[c] = Corners[Sector(probe[q].hue)][c + 1] * SCALE
                ELSE probe[q].srgb[c] \in 0..SCALE
            /\ Cardinality({c \in 0..2 : probe[q].srgb[c] = 0}) >= 1
            /\ Cardinality({c \in 0..2 : probe[q].srgb[c] = SCALE}) >= 1
            /\ {dispatch(probe[q].hue, h).i, dispatch(probe[q].hue, h).j,
                dispatch(probe[q].hue, h).k} = {0, 1, 2}
            /\ ~IsNaNColor(probe[q].color)

\* A hue inside the green-cyan sector was solved, with the third channel
\* strictly between 0 and 1.
C8_Witness ==
    /\ Len(probe) >= 1
    /\ Sector(probe[1].hue) = 3
    /\ probe[1].srgb[2] > 0
    /\ probe[1].srgb[2] < SCALE

\* The table (in LUV) of BrewerDiverging called with the arguments a, the
\* bright point lp and the static h[] = hh.
DivergingColors(a, lp, hh) ==
    LET pts0 == profile(a.hue, a.saturation, a.warmth, lp, hh)
        pts1 == profile(hue1(a.hue, a.divergence), a.saturation, a.warmth, lp, hh)
    IN  [k \in 0..a.n - 1 |-> DivergingEntry(a.n, k, a, pts0, pts1, hh).c]

\* The arguments with hue H + D and divergence -D.
Mirrored(a) == [a EXCEPT !.hue = a.hue + a.divergence, !.divergence = -a.divergence]

\* C9: entry i of Diverging(hue = H, divergence = D) equals entry n - 1 - i
\* of Diverging(hue = H + D, divergence = -D), the midpoint of an odd n
\* included.
C9_DivergingSymmetry ==
    \A t \in Threads :
        (Done(t) /\ call[t].fn = "BrewerDiverging") =>
            \A k \in 0..call[t].n - 1 :
                entries[t][k + 1].c
                  = DivergingColors(Mirrored(call[t]), lpb[t], h)[call[t].n - 1 - k]

\* C10: for Sequential with contrast > 0 and brightness = 1 the lightness of
\* the entries is monotonic in the index i: the position t and the target
\* lightness strictly decrease with i, and the lightness of the entries
\* follows in the same order, never increasing.
C10_MonotonicLightness ==
    \A t \in Threads :
        (Done(t) /\ call[t].fn = "BrewerSequential" /\ call[t].contrast > 0
         /\ call[t].brightness = SCALE) =>
            \A k \in 1..call[t].n - 1 :
                /\ entries[t][k].pos > entries[t][k + 1].pos
                /\ target_lightness(entries[t][k].pos, call[t].contrast,
                                    call[t].brightness)
                     > target_lightness(entries[t][k + 1].pos, call[t].contrast,
                                        call[t].brightness)
                /\ entries[t][k].c.l >= entries[t][k + 1].c.l

\* A Sequential call with contrast > 0, brightness 1 and more than two
\* entries has returned a table whose lightness decreases from entry to
\* entry, down to lightness 0.
C10_Witness ==
    \E t \in Threads :
        /\ Done(t)
        /\ call[t].fn = "BrewerSequential"
        /\ call[t].contrast > 0
        /\ call[t].brightness = SCALE
        /\ call[t].n >= 3
        /\ \A k \in 1..call[t].n - 1 : entries[t][k].c.l > entries[t][k + 1].c.l

\* Entry k (counted from 1) of a Sequential table of thread t was sampled at
\* t = (n - 1 - i) / (n - 1) with i = k - 1, up to the rounding of the
\* quotient.
SampledReversed(t, k) ==
    Abs(entries[t][k].pos * (call[t].n - 1) - (call[t].n - k) * SCALE)
        < call[t].n - 1

\* The target lightness of entry k of the table of thread t.
TargetOf(t, k) ==
    target_lightness(entries[t][k].pos, call[t].contrast, call[t].brightness)

\* C11 as stated: Sequential samples entry i at t = (n - 1 - i) / (n - 1),
\* and for contrast > 0 the target lightness of the last entry is the
\* maximum over the n entries.
C11_LastIsLightest ==
    \A t \in Threads :
        (Done(t) /\ call[t].fn = "BrewerSequential" /\ call[t].contrast > 0) =>
            \A k \in 1..call[t].n :
                /\ SampledReversed(t, k)
                /\ TargetOf(t, call[t].n) >= TargetOf(t, k)

\* C11 amended: Sequential samples entry i at t = (n - 1 - i) / (n - 1), and
\* for contrast > 0 the target lightness of the last entry (t = 0) is the
\* minimum over the n entries and that of entry 0 (t = 1) the maximum: the
\* last entry is the darkest end of the map.
C11_LastIsDarkest ==
    \A t \in Threads :
        (Done(t) /\ call[t].fn = "BrewerSequential" /\ call[t].contrast > 0) =>
            /\ entries[t][1].pos = SCALE
            /\ entries[t][call[t].n].pos = 0
            /\ TargetOf(t, call[t].n) < TargetOf(t, 1)
            /\ \A k \in 1..call[t].n :
                /\ SampledReversed(t, k)
                /\ TargetOf(t, call[t].n) <= TargetOf(t, k)
                /\ TargetOf(t, k) <= TargetOf(t, 1)

\* A Sequential call with contrast > 0 and four entries has returned, with
\* the target lightness of the last entry below that of every other entry.
C11_Witness ==
    \E t \in Threads :
        /\ Done(t)
        /\ call[t].fn = "BrewerSequential"
        /\ call[t].contrast > 0
        /\ call[t].n = 4
        /\ \A k \in 1..3 : TargetOf(t, 4) < TargetOf(t, k)

\* The three bytes stored for entry k (counted from 1) of the table of
\* thread t.
BytesAt(t, k) ==
    <<colormap[t][3 * (k - 1)], colormap[t][3 * (k - 1) + 1],
      colormap[t][3 * (k - 1) + 2]>>

\* C12: for gamma > 0 CubeHelix's amplitude is zero at both ends of the
\* table: entry 0 is black before clamping and stored as (0, 0, 0), entry
\* n - 1 is white and stored as (255, 255, 255), and neither is counted in
\* the clip count.
C12_BlackToWhite ==
    \A t \in Threads :
        (Done(t) /\ call[t].fn = "CubeHelix" /\ call[t].gamma > 0) =>
            /\ entries[t][1].raw = [r |-> 0, g |-> 0, b |-> 0]
            /\ entries[t][call[t].n].raw = [r |-> SCALE, g |-> SCALE, b |-> SCALE]
            /\ BytesAt(t, 1) = <<0, 0, 0>>
            /\ BytesAt(t, call[t].n) = <<255, 255, 255>>
            /\ OutOfRange(t) \cap {1, call[t].n} = {}
            /\ clippings[t] <= call[t].n - 2

\* A CubeHelix call with gamma 1/2 and saturation 4 has returned four
\* entries, black first and white last, with both inner entries clipped.
C12_Witness ==
    \E t \in Threads :
        /\ Done(t)
        /\ call[t].fn = "CubeHelix"
        /\ call[t].gamma = SCALE \div 2
        /\ call[t].n = 4
        /\ clippings[t] = 2
        /\ BytesAt(t, 1) = <<0, 0, 0>>
        /\ BytesAt(t, 4) = <<255, 255, 255>>

\* C13 as stated: in CubeHelix the amplitude of every entry is
\* saturation * fract * (1 - fract) / 2 with fract = i / (n - 1), the
\* position that drives the angle; only the gray ramp uses fract^gamma.
C13_AmplitudeOfPosition ==
    \A t \in Threads :
        (Done(t) /\ call[t].fn = "CubeHelix") =>
            \A k \in 1..call[t].n :
                /\ Abs(entries[t][k].pos * (call[t].n - 1) - (k - 1) * SCALE)
                     < call[t].n - 1
                /\ entries[t][k].loc.fract = Pow(entries[t][k].pos, call[t].gamma)
                /\ entries[t][k].loc.amp
                     = MulFix(MulFix(call[t].saturation, entries[t][k].pos),
                              SCALE - entries[t][k].pos) \div 2

\* C13 amended: in CubeHelix the amplitude of every entry is
\* saturation * f * (1 - f) / 2 with f = (i / (n - 1))^gamma, the value of
\* the gray ramp; only the angle hue/3 + 1 + rotations * i / (n - 1) uses
\* the position itself.
C13_AmplitudeOfRamp ==
    \A t \in Threads :
        (Done(t) /\ call[t].fn = "CubeHelix") =>
            \A k \in 1..call[t].n :
                /\ Abs(entries[t][k].pos * (call[t].n - 1) - (k - 1) * SCALE)
                     < call[t].n - 1
                /\ entries[t][k].loc.fract = Pow(entries[t][k].pos, call[t].gamma)
                /\ entries[t][k].loc.amp
                     = MulFix(MulFix(call[t].saturation, entries[t][k].loc.fract),
                              SCALE - entries[t][k].loc.fract) \div 2
                /\ entries[t][k].loc.angle
                     = MulFix(twopi, DivFix(call[t].hue, 3 * SCALE) + SCALE
                                     + MulFix(call[t].rot, entries[t][k].pos))
                /\ entries[t][k].raw.b
                     = entries[t][k].loc.fract
                       + MulFix(entries[t][k].loc.amp,
                                MulFix(19729, entries[t][k].loc.c))

\* A CubeHelix call with gamma 1/2 has returned three entries; the middle
\* one, at position 1/2, has a gray value above 0.7 and an amplitude below
\* saturation / 8, the amplitude the position itself would give.
C13_Witness ==
    \E t \in Threads :
        /\ Done(t)
        /\ call[t].fn = "CubeHelix"
        /\ call[t].gamma = SCALE \div 2
        /\ call[t].n = 3
        /\ entries[t][2].pos = SCALE \div 2
        /\ entries[t][2].loc.fract > 7000
        /\ entries[t][2].loc.amp < call[t].saturation \div 8

\* The branches of the loop body of BrewerDiverging that make the neutral
\* midpoint.
MidBranches == {"neutral", "average"}

\* Index i of a diverging table of size n is the midpoint of an odd n.
IsMidpoint(n, idx) == n % 2 = 1 /\ 2 * idx = n - 1

\* The indices (counted from 0) of the table of thread t handled by branch b.
HalfOf(t, b) == {idx \in 0..call[t].n - 1 : entries[t][idx + 1].branch = b}

\* The partition of the indices of a diverging table and the folded
\* position of its entries: the first profile at tt = 2 i / (n - 1) for
\* i < n / 2, the second at tt = 2 (n - 1 - i) / (n - 1) for i >= n / 2
\* other than the midpoint, the midpoint branch for odd n and
\* i = (n - 1) / 2; tt is in [0, 1], 0 at both ends of the table, and the
\* same at i and n - 1 - i, up to the rounding of the quotient.
DivergingPartition(t) ==
    \A idx \in 0..call[t].n - 1 :
        /\ entries[t][idx + 1].branch = "first" <=> idx < call[t].n \div 2
        /\ entries[t][idx + 1].branch \in MidBranches <=> IsMidpoint(call[t].n, idx)
        /\ entries[t][idx + 1].branch = "second"
             <=> (idx >= call[t].n \div 2 /\ ~IsMidpoint(call[t].n, idx))
        /\ entries[t][idx + 1].branch = "first" =>
             Abs(entries[t][idx + 1].pos * (call[t].n - 1) - 2 * idx * SCALE)
                < 2 * (call[t].n - 1)
        /\ entries[t][idx + 1].branch = "second" =>
             Abs(entries[t][idx + 1].pos * (call[t].n - 1)
                 - 2 * (call[t].n - 1 - idx) * SCALE) < 2 * (call[t].n - 1)
        /\ ~IsMidpoint(call[t].n, idx) =>
             /\ entries[t][idx + 1].pos \in 0..SCALE
             /\ idx \in {0, call[t].n - 1} => entries[t][idx + 1].pos = 0
             /\ Abs(entries[t][idx + 1].pos - entries[t][call[t].n - idx].pos) <= 2

\* C14 as stated: Diverging partitions the indices among the first profile,
\* the second profile and the midpoint branch, with the folded positions
\* above, and within each half tt runs over the full range from 0 to 1.
C14_HalvesReachOne ==
    \A t \in Threads :
        (Done(t) /\ call[t].fn = "BrewerDiverging") =>
            /\ DivergingPartition(t)
            /\ \A b \in {"first", "second"} :
                /\ \E idx \in HalfOf(t, b) : entries[t][idx + 1].pos = 0
                /\ \E idx \in HalfOf(t, b) : entries[t][idx + 1].pos = SCALE

\* C14 amended: the same partition and folded positions; within each half
\* tt starts at 0 at the outer end and stays below 1, at most
\* (n - 2) / (n - 1): position 1 is taken by the midpoint branch alone.
C14_HalvesBelowOne ==
    \A t \in Threads :
        (Done(t) /\ call[t].fn = "BrewerDiverging") =>
            /\ DivergingPartition(t)
            /\ \A b \in {"first", "second"} :
                /\ \E idx \in HalfOf(t, b) : entries[t][idx + 1].pos = 0
                /\ \A idx \in HalfOf(t, b) :
                     entries[t][idx + 1].pos * (call[t].n - 1)
                        < (call[t].n - 2) * SCALE + 2 * (call[t].n - 1)

\* A Diverging call has returned four entries, two from each profile, the
\* inner two at a position strictly between 0 and 1.
C14_Witness ==
    \E t \in Threads :
        /\ Done(t)
        /\ call[t].fn = "BrewerDiverging"
        /\ call[t].n = 4
        /\ HalfOf(t, "first") = {0, 1}
        /\ HalfOf(t, "second") = {2, 3}
        /\ entries[t][2].pos > SCALE \div 2
        /\ entries[t][3].pos > SCALE \div 2
        /\ entries[t][3].pos < SCALE

\* The colour of profile p (1 or 2) of thread t at position 1: c0 and c1 of
\* the midpoint branch of BrewerDiverging.
EndColor(t, p) == entry_of(pts[t][p], SCALE, call[t].contrast, call[t].brightness)

\* The saturation of a LUV colour.
SatOf(c) == luv_saturation(c.l, c.u, c.v)

\* The hue of the bright point thread t holds.
BrightHue(t) == luv_to_lch(lpb[t].u, lpb[t].v).h

\* a and b differ by at most tol.
Near(a, b, tol) == Abs(a - b) <= tol

\* Where the midpoint branch is taken in a diverging table: for odd n at
\* index (n - 1) / 2 and nowhere else, for even n nowhere; the neutral
\* branch if n <= 9 and the average branch if n >= 11.
MidpointPlace(t) ==
    /\ HalfOf(t, "neutral") \cup HalfOf(t, "average")
         = {idx \in 0..call[t].n - 1 : IsMidpoint(call[t].n, idx)}
    /\ call[t].n % 2 = 0 => HalfOf(t, "neutral") \cup HalfOf(t, "average") = {}
    /\ call[t].n % 2 = 1 =>
         /\ HalfOf(t, "neutral") \cup HalfOf(t, "average") = {(call[t].n - 1) \div 2}
         /\ HalfOf(t, "neutral") # {} <=> call[t].n <= 9
         /\ HalfOf(t, "average") # {} <=> call[t].n >= 11

\* The colour c of an average midpoint is 0.5 * (c0 + c1), componentwise.
IsAverage(c, c0, c1) ==
    /\ Near(2 * c.l, c0.l + c1.l, 2)
    /\ Near(2 * c.u, c0.u + c1.u, 2)
    /\ Near(2 * c.v, c0.v + c1.v, 2)

\* The colour c of a neutral midpoint has the average lightness of c0 and
\* c1, the hue of the bright point (up to the rounding of u and v), and the
\* saturation sn capped by Smax.
IsNeutral(t, c, c0, c1, sn) ==
    /\ Near(2 * c.l, c0.l + c1.l, 1)
    /\ Hypot(c.u, c.v) > 100 =>
         Near(luv_to_lch(c.u, c.v).h, BrightHue(t), 3 + (2 * SCALE) \div Hypot(c.u, c.v))
    /\ Near(SatOf(c), FMin(Smax(c.l, BrightHue(t), h), sn), 5)

\* C15 as stated: for odd n exactly the entry (n - 1) / 2 is the neutral
\* midpoint, made from c0 and c1: if n <= 9 with their average lightness,
\* the bright point's hue and the average of their saturations capped by
\* Smax, if n >= 11 as 0.5 * (c0 + c1); for even n there is no midpoint.
C15_AverageSaturation ==
    \A t \in Threads :
        (Done(t) /\ call[t].fn = "BrewerDiverging") =>
            /\ MidpointPlace(t)
            /\ \A idx \in HalfOf(t, "average") :
                 IsAverage(entries[t][idx + 1].c, EndColor(t, 1), EndColor(t, 2))
            /\ \A idx \in HalfOf(t, "neutral") :
                 IsNeutral(t, entries[t][idx + 1].c, EndColor(t, 1), EndColor(t, 2),
                           (SatOf(EndColor(t, 1)) + SatOf(EndColor(t, 2))) \div 2)

\* C15 amended: the same, with the saturation of the neutral midpoint the
\* average of the two saturations times warmth, capped by Smax.
C15_WarmthScaledSaturation ==
    \A t \in Threads :
        (Done(t) /\ call[t].fn = "BrewerDiverging") =>
            /\ MidpointPlace(t)
            /\ \A idx \in HalfOf(t, "average") :
                 IsAverage(entries[t][idx + 1].c, EndColor(t, 1), EndColor(t, 2))
            /\ \A idx \in HalfOf(t, "neutral") :
                 IsNeutral(t, entries[t][idx + 1].c, EndColor(t, 1), EndColor(t, 2),
                           MulFix((SatOf(EndColor(t, 1)) + SatOf(EndColor(t, 2))) \div 2,
                                  call[t].warmth))

\* A Diverging call with n = 9 and warmth 0.15 has returned: entry 4 is the
\* neutral midpoint, less than half as saturated as the average of the two
\* profiles' colours at position 1.
C15_Witness ==
    \E t \in Threads :
        /\ Done(t)
        /\ call[t].fn = "BrewerDiverging"
        /\ call[t].n = 9
        /\ call[t].warmth = 1500
        /\ entries[t][5].branch = "neutral"
        /\ 4 * SatOf(entries[t][5].c) < SatOf(EndColor(t, 1)) + SatOf(EndColor(t, 2))
        /\ SatOf(entries[t][5].c) > 0

\* The distance of the angles x and y on the circle.
CircleDist(x, y) == Min(Abs(x - y), twopi - Abs(x - y))

\* l0 and l1 of BrewerQualitative for the call of thread t.
BaseLightness(t) == MulFix(call[t].brightness, yl)

ReducedLightness(t) == MulFix(SCALE - call[t].contrast, BaseLightness(t))

\* C16: in Qualitative every entry's hue ch = (hue + t * divergence) mod
\* 2 pi lies in [0, 2 pi), its alpha is the angular distance of ch from
\* yellow's hue over pi and lies in [0, 1], and its lightness cl lies
\* between l1 = (1 - contrast) * l0 and l0 = brightness * yl, equals l0 where
\* alpha is 0, and does not increase with the distance from yellow.
C16_QualitativeLightness ==
    \A t \in Threads :
        (Done(t) /\ call[t].fn = "BrewerQualitative") =>
            \A k \in 1..call[t].n :
                /\ entries[t][k].ch \in 0..twopi - 1
                /\ CircleDist(entries[t][k].ch,
                              (call[t].hue + MulFix(entries[t][k].pos, call[t].divergence))
                                 % twopi) <= 10
                /\ entries[t][k].alpha \in 0..SCALE
                /\ Near(entries[t][k].alpha * pi,
                        CircleDist(entries[t][k].ch, yh) * SCALE, pi)
                /\ entries[t][k].c.l >= ReducedLightness(t) - 1
                /\ entries[t][k].c.l <= BaseLightness(t)
                /\ Near(BaseLightness(t) - entries[t][k].c.l,
                        MulFix(entries[t][k].alpha,
                               BaseLightness(t) - ReducedLightness(t)), 2)
                /\ entries[t][k].alpha = 0 => entries[t][k].c.l = BaseLightness(t)
                /\ \A j \in 1..call[t].n :
                     entries[t][j].alpha <= entries[t][k].alpha
                        => entries[t][j].c.l >= entries[t][k].c.l - 1

\* A Qualitative call with contrast and brightness above 0 has returned:
\* its first entry is at yellow's hue, up to the rounding of hue / twopi,
\* with a lightness that close to l0, and another entry lies more than pi
\* beyond yellow's hue, so that its distance is taken the other way round,
\* with a lightness strictly between l1 and l0.
C16_Witness ==
    \E t \in Threads :
        /\ Done(t)
        /\ call[t].fn = "BrewerQualitative"
        /\ call[t].contrast > 0
        /\ call[t].brightness > 0
        /\ entries[t][1].alpha <= 1
        /\ entries[t][1].c.l >= BaseLightness(t) - 50
        /\ \E k \in 2..call[t].n :
            /\ entries[t][k].ch - yh > pi
            /\ entries[t][k].alpha > SCALE \div 2
            /\ entries[t][k].c.l > ReducedLightness(t)
            /\ entries[t][k].c.l < BaseLightness(t) - 50

\* C17: u_prime and v_prime guard against the zero denominator
\* x + 15 y + 3 z: at (0, 0, 0) each returns 0, and xyz_to_luv(0, 0, 0) is a
\* defined LUV colour with l = 0.
C17_GuardedAtZero ==
    \A q \in 1..Len(probe) :
        probe[q].xyz = <<0, 0, 0>> =>
            /\ probe[q].up = 0
            /\ probe[q].vp = 0
            /\ ~IsNaNColor(probe[q].luv)
            /\ probe[q].luv.l = 0

=============================================================================
